---- MODULE Spec2Model ----
(***************************************************************************)
(* Model of rwm_dataset_tools: the annotation-processing and               *)
(* split-assignment pipeline that turns annotation rows into a YOLO        *)
(* dataset (class resolution, PSEZ containment filter, split assignment,   *)
(* label encoding, extraction loop and its statistics).                    *)
(*                                                                         *)
(* EPPO codes are strings in the program; here a code is the sequence of   *)
(* its characters, so that str.startswith is computed, not assumed.        *)
(* Floating point results of the label encoder are exact fractions         *)
(* <<numerator, denominator>>; NaN is the fraction <<0, 0>>.               *)
(***************************************************************************)
EXTENDS Integers, Sequences, FiniteSets, TLC

VARIABLES
    config,         \* the configuration dictionary (read-only during a run)
    data,           \* the DataFrame of annotation rows, a sequence of rows
    pc,             \* position of the program
    ret,            \* value returned by the function applied last
    data_by_image,  \* partition_by_image_id's result: groups ordered by ImageId
    pos,            \* index of the next group of the extraction loop
    rng,            \* self.rng: state of the seeded generator
    stats,          \* the statistics dictionary of _create_dataset_files
    image_files,    \* files under images/<split>/: <<split, image_id, "copy" or "symlink">>
    label_files,    \* files under labels/<split>/: records split, image_id, lines
    split_log,      \* per group of this run, in loop order: split, draw, outcome
    prev_log,       \* seed and split_log of the previous run of the extractor
    db_rows,        \* the rows the database query returns
    dataset_yaml,   \* the dataset YAML file, <<>> while it does not exist
    run             \* number of the current run of the extractor

vars == <<config, data, pc, ret, data_by_image, pos, rng, stats,
          image_files, label_files, split_log, prev_log, db_rows,
          dataset_yaml, run>>

-----------------------------------------------------------------------------
(* Bounds of the model.                                                    *)

MaxVocab == 3
MaxRows == 3
MaxImages == 3
RngModulus == 8

-----------------------------------------------------------------------------
(* EPPO codes as character sequences.                                      *)

SOL == <<"S", "O", "L">>
SOLTU == <<"S", "O", "L", "T", "U">>
SOLTU1 == <<"S", "O", "L", "T", "U", "1">>
SOLTU2 == <<"S", "O", "L", "T", "U", "2">>
PSEZ == <<"P", "S", "E", "Z">>
PPP == <<"P", "P", "P">>
PPPMM == <<"P", "P", "P", "M", "M">>
PPPDD == <<"P", "P", "P", "D", "D">>
ZZZZZ == <<"Z", "Z", "Z", "Z", "Z">>

\* Python's None as a return value where a code is expected, and a NULL
\* EPPOCode column value (pd.isna); neither is a string of the alphabet.
None == <<"None">>
NaNCode == <<"NaN">>

\* A NULL coordinate: pandas holds it as NaN.
NaN == -1000000
NaNFrac == <<0, 0>>

IsNaN(x) == x = NaN

\* str.startswith
StartsWith(s, prefix) ==
    /\ Len(prefix) <= Len(s)
    /\ SubSeq(s, 1, Len(prefix)) = prefix

\* x in list
InList(x, list) == \E i \in 1..Len(list) : list[i] = x

\* list.index(x): position of the first occurrence, 0-based
IndexOf(x, list) == (CHOOSE i \in 1..Len(list) :
                        /\ list[i] = x
                        /\ \A j \in 1..(i-1) : list[j] # x) - 1

-----------------------------------------------------------------------------
(* processing.py: find_relevant_eppo                                       *)

\* The prefix loop of find_relevant_eppo from entry i on: eppo_code is
\* reassigned on every match and the loop goes on to the next entry.
RECURSIVE PrefixLoop(_, _, _)
PrefixLoop(eppo_code, eppo_codes, i) ==
    IF i > Len(eppo_codes) THEN eppo_code
    ELSE PrefixLoop(IF StartsWith(eppo_code, eppo_codes[i])
                        THEN eppo_codes[i] ELSE eppo_code,
                    eppo_codes, i + 1)

\* mutant: the monocot and dicot fallbacks come before the vocabulary test
find_relevant_eppo_fallback_first(eppo_code, cotyledon_id, eppo_codes) ==
    LET code == PrefixLoop(eppo_code, eppo_codes, 1) IN
    IF cotyledon_id = -100 THEN PPPMM
    ELSE IF cotyledon_id = -101 THEN PPPDD
    ELSE IF InList(code, eppo_codes) THEN code
    ELSE None

\* mutant: the prefix loop starts at the second vocabulary entry
find_relevant_eppo_skips_first(eppo_code, cotyledon_id, eppo_codes) ==
    LET code == PrefixLoop(eppo_code, eppo_codes, 2) IN
    IF InList(code, eppo_codes) THEN code
    ELSE IF cotyledon_id = -100 THEN PPPMM
    ELSE IF cotyledon_id = -101 THEN PPPDD
    ELSE None

\* mutant: only a code that the prefix loop changed is looked up in the
\* vocabulary
find_relevant_eppo_suffixed_only(eppo_code, cotyledon_id, eppo_codes) ==
    LET code == PrefixLoop(eppo_code, eppo_codes, 1) IN
    IF InList(code, eppo_codes) /\ code # eppo_code THEN code
    ELSE IF cotyledon_id = -100 THEN PPPMM
    ELSE IF cotyledon_id = -101 THEN PPPDD
    ELSE None

find_relevant_eppo(eppo_code, cotyledon_id, eppo_codes) ==
    LET code == PrefixLoop(eppo_code, eppo_codes, 1) IN
    IF InList(code, eppo_codes) THEN code
    ELSE IF cotyledon_id = -100 THEN PPPMM
    ELSE IF cotyledon_id = -101 THEN PPPDD
    ELSE None

-----------------------------------------------------------------------------
(* formats/yolo.py: row_to_yolo_format                                     *)

\* a - b on pandas numbers: NaN propagates
Sub(a, b) == IF IsNaN(a) \/ IsNaN(b) THEN NaN ELSE a - b

\* (float(extent) / 2 + low) / float(size), as a fraction
CenterNorm(low, extent, size) ==
    IF IsNaN(low) \/ IsNaN(extent) THEN NaNFrac
    ELSE <<2 * low + extent, 2 * size>>

\* mutant: the normalised extent is clamped to [0, 1]
ExtentNorm_clamped(extent, size) ==
    IF IsNaN(extent) THEN NaNFrac
    ELSE IF extent < 0 THEN <<0, size>>
    ELSE IF extent > size THEN <<size, size>>
    ELSE <<extent, size>>

\* extent / float(size), as a fraction
ExtentNorm(extent, size) ==
    IF IsNaN(extent) THEN NaNFrac ELSE <<extent, size>>

NoLine == [kind |-> "none", line |-> <<>>]
ValueError == [kind |-> "raise", line |-> <<>>]

row_to_yolo_format(row, eppo_codes) ==
    IF row.EPPOCode = NaNCode THEN NoLine
    ELSE LET eppo_code == find_relevant_eppo(row.EPPOCode, row.cotyledon, eppo_codes) IN
         IF eppo_code = None THEN NoLine
         ELSE IF ~InList(eppo_code, eppo_codes) THEN ValueError
         ELSE LET class_index == IndexOf(eppo_code, eppo_codes)
                  box_width == Sub(row.MaxX, row.MinX)
                  box_height == Sub(row.MaxY, row.MinY)
              IN  [kind |-> "line",
                   line |-> <<class_index,
                              CenterNorm(row.MinX, box_width, row.Width),
                              CenterNorm(row.MinY, box_height, row.Height),
                              ExtentNorm(box_width, row.Width),
                              ExtentNorm(box_height, row.Height)>>]

-----------------------------------------------------------------------------
(* formats/yolo.py: create_label_file                                      *)

RECURSIVE YoloLines(_, _, _)
\* the loop over annotations.iterrows() from row i on; a raise in
\* row_to_yolo_format leaves the loop and the function
YoloLines(annotations, eppo_codes, i) ==
    IF i > Len(annotations) THEN [kind |-> "ok", lines |-> <<>>]
    ELSE LET yolo_line == row_to_yolo_format(annotations[i], eppo_codes) IN
         IF yolo_line.kind = "raise" THEN [kind |-> "raise", lines |-> <<>>]
         ELSE LET rest == YoloLines(annotations, eppo_codes, i + 1) IN
              IF rest.kind = "raise" THEN rest
              ELSE [kind |-> "ok",
                    lines |-> (IF yolo_line.kind = "line"
                                  THEN <<yolo_line.line>> ELSE <<>>) \o rest.lines]

\* the lines create_label_file writes to <labels_dir>/<image_id>.txt, or the
\* exception that escapes it
create_label_file(annotations, eppo_codes) == YoloLines(annotations, eppo_codes, 1)

-----------------------------------------------------------------------------
(* processing.py: center_enclosed, process_psez_annotations,               *)
(* partition_by_image_id                                                   *)

Box(row) == <<row.MinX, row.MinY, row.MaxX, row.MaxY>>

\* mutant: a centre on an edge of the outer box counts as enclosed
center_enclosed_inclusive(inner_box, outer_box) ==
    /\ \A k \in 1..4 : ~IsNaN(inner_box[k]) /\ ~IsNaN(outer_box[k])
    /\ inner_box[1] + inner_box[3] >= 2 * outer_box[1]
    /\ inner_box[2] + inner_box[4] >= 2 * outer_box[2]
    /\ inner_box[1] + inner_box[3] <= 2 * outer_box[3]
    /\ inner_box[2] + inner_box[4] <= 2 * outer_box[4]

\* mutant: the centre is half the extent, the minimum is not added
center_enclosed_half_extent(inner_box, outer_box) ==
    /\ \A k \in 1..4 : ~IsNaN(inner_box[k]) /\ ~IsNaN(outer_box[k])
    /\ inner_box[3] - inner_box[1] > 2 * outer_box[1]
    /\ inner_box[4] - inner_box[2] > 2 * outer_box[2]
    /\ inner_box[3] - inner_box[1] < 2 * outer_box[3]
    /\ inner_box[4] - inner_box[2] < 2 * outer_box[4]

\* Twice the centre of the inner box against twice the outer edges; every
\* comparison with NaN is false.
center_enclosed(inner_box, outer_box) ==
    /\ \A k \in 1..4 : ~IsNaN(inner_box[k]) /\ ~IsNaN(outer_box[k])
    /\ LET width == inner_box[3] - inner_box[1]
           center_x2 == 2 * inner_box[1] + width
           height == inner_box[4] - inner_box[2]
           center_y2 == 2 * inner_box[2] + height
       IN  /\ center_x2 > 2 * outer_box[1]
           /\ center_y2 > 2 * outer_box[2]
           /\ center_x2 < 2 * outer_box[3]
           /\ center_y2 < 2 * outer_box[4]

IsPsez(row) == row.EPPOCode = PSEZ
NotPsez(row) == row.EPPOCode # PSEZ

\* mutant: the crop boxes are not restricted to the PSEZ row's image
crop_boxes_any_image(psez_row, non_psez_data, psez_crops) ==
    SelectSeq(non_psez_data, LAMBDA r : InList(r.EPPOCode, psez_crops))

\* crop_boxes of processing.py lines 52-55
crop_boxes(psez_row, non_psez_data, psez_crops) ==
    SelectSeq(non_psez_data,
              LAMBDA r : /\ r.ImageId = psez_row.ImageId
                         /\ InList(r.EPPOCode, psez_crops))

\* the inner loop of lines 57-72: some crop box encloses the PSEZ centre
EnclosedByCrop(psez_row, non_psez_data, psez_crops) ==
    LET boxes == crop_boxes(psez_row, non_psez_data, psez_crops) IN
    \E j \in 1..Len(boxes) : center_enclosed(Box(psez_row), Box(boxes[j]))

\* mutant: the valid PSEZ rows are appended to all the rows
process_psez_annotations_concat_all(rows, psez_crops) ==
    LET psez_data == SelectSeq(rows, IsPsez)
        non_psez_data == SelectSeq(rows, NotPsez)
        valid_psez_data ==
            SelectSeq(psez_data,
                      LAMBDA r : EnclosedByCrop(r, non_psez_data, psez_crops))
    IN  rows \o valid_psez_data

\* mutant: the first non-PSEZ row is lost in the concatenation
process_psez_annotations_drops_first(rows, psez_crops) ==
    LET psez_data == SelectSeq(rows, IsPsez)
        non_psez_data == SelectSeq(rows, NotPsez)
        valid_psez_data ==
            SelectSeq(psez_data,
                      LAMBDA r : EnclosedByCrop(r, non_psez_data, psez_crops))
    IN  (IF non_psez_data = <<>> THEN <<>> ELSE Tail(non_psez_data))
        \o valid_psez_data

\* mutant: the crop boxes are looked up among all the rows
process_psez_annotations_any_container(rows, psez_crops) ==
    LET psez_data == SelectSeq(rows, IsPsez)
        non_psez_data == SelectSeq(rows, NotPsez)
        valid_psez_data ==
            SelectSeq(psez_data, LAMBDA r : EnclosedByCrop(r, rows, psez_crops))
    IN  non_psez_data \o valid_psez_data

process_psez_annotations(rows, psez_crops) ==
    LET psez_data == SelectSeq(rows, IsPsez)
        non_psez_data == SelectSeq(rows, NotPsez)
        valid_psez_data ==
            SelectSeq(psez_data,
                      LAMBDA r : EnclosedByCrop(r, non_psez_data, psez_crops))
    IN  non_psez_data \o valid_psez_data

ImageIdsOf(rows) == {rows[i].ImageId : i \in 1..Len(rows)}

RECURSIVE SortedSeq(_)
\* the keys of a groupby in ascending order
SortedSeq(S) ==
    IF S = {} THEN <<>>
    ELSE LET m == CHOOSE x \in S : \A y \in S : x <= y
         IN  <<m>> \o SortedSeq(S \ {m})

\* groupby('ImageId'): one group per image id, ascending, rows in their order
partition_by_image_id(rows) ==
    LET keys == SortedSeq(ImageIdsOf(rows)) IN
    [k \in 1..Len(keys) |->
        SelectSeq(rows, LAMBDA r : r.ImageId = keys[k])]

-----------------------------------------------------------------------------
(* Rows, configurations and the idle values of the extraction state.       *)

Splits == {"train", "val", "test"}

Row(id, image_id, upload_id, code, cotyledon_id, box, grown) ==
    [Id |-> id, ImageId |-> image_id, UploadId |-> upload_id,
     EPPOCode |-> code, cotyledon |-> cotyledon_id,
     MinX |-> box[1], MinY |-> box[2], MaxX |-> box[3], MaxY |-> box[4],
     Width |-> 100, Height |-> 100, GrownWeed |-> grown]

NoFixedSets ==
    [train_uploads |-> {}, val_uploads |-> {}, test_uploads |-> {},
     train_images |-> {}, val_images |-> {}, test_images |-> {}]

BaseConfig ==
    [eppo_codes |-> <<SOLTU, PSEZ>>, psez_crops |-> <<SOLTU>>,
     fixed_sets |-> NoFixedSets,
     split_probabilities |-> [train |-> 1, val |-> 1, test |-> 1],
     held_back_images |-> {}, random_seed |-> 42, format |-> "yolov11",
     copy_images |-> FALSE]

\* the stats dictionary of _create_dataset_files, lines 110-121
InitStats(n) ==
    [total_images |-> n, train_images |-> 0, val_images |-> 0,
     test_images |-> 0, total_annotations |-> 0, train_annotations |-> 0,
     val_annotations |-> 0, test_annotations |-> 0,
     skipped_images |-> 0, errors |-> 0]

NoPrevLog == [seed |-> 0, entries |-> <<>>]

\* no output yet, the extraction loop has not started
NoOutput ==
    /\ data_by_image = <<>>
    /\ pos = 0
    /\ stats = InitStats(0)
    /\ image_files = {}
    /\ label_files = {}
    /\ dataset_yaml = <<>>
    /\ split_log = <<>>
    /\ prev_log = NoPrevLog
    /\ run = 1

LoopIdle == NoOutput /\ rng = 0

loop_vars == <<data_by_image, pos, rng, stats, image_files, label_files,
               split_log, prev_log, dataset_yaml, run>>

\* duplicate-free sequences over S of length at most n
Lists(S, n) ==
    UNION {{q \in [1..k -> S] : \A i, j \in 1..k : i # j => q[i] # q[j]}
           : k \in 0..n}

-----------------------------------------------------------------------------
(* SpecResolve: find_relevant_eppo and row_to_yolo_format on one row, for  *)
(* every vocabulary of at most MaxVocab entries.                           *)

VocabEntries == {SOL, SOLTU, PPP, PPPMM, PPPDD}
RawCodes == {SOL, SOLTU, SOLTU1, SOLTU2, ZZZZZ, PPPMM, PPPDD, NaNCode}
Cotyledons == {-100, -101, 0}
EncodeBoxes == {<<10, 10, 20, 20>>, <<0, 0, 100, 100>>, <<20, 20, 10, 10>>,
                <<50, 50, 250, 250>>, <<NaN, 10, 20, 20>>, <<10, 10, 20, NaN>>}

Unset == <<"unset">>
RetUnset == [eppo |-> Unset, again |-> Unset,
             yolo |-> [kind |-> "unset", line |-> <<>>]]

InitResolve ==
    /\ config \in {[BaseConfig EXCEPT !.eppo_codes = v] :
                      v \in Lists(VocabEntries, MaxVocab)}
    /\ \E c \in RawCodes, a \in Cotyledons, b \in EncodeBoxes :
          db_rows = <<Row(1, 42, 1, c, a, b, FALSE)>>
    /\ data = db_rows
    /\ pc = "input"
    /\ ret = RetUnset
    /\ LoopIdle

\* find_relevant_eppo on the row's code (a string) and cotyledon
FindRelevantEppo ==
    /\ pc = "input"
    /\ data[1].EPPOCode # NaNCode
    /\ ret' = [ret EXCEPT !.eppo = find_relevant_eppo(data[1].EPPOCode,
                                       data[1].cotyledon, config.eppo_codes)]
    /\ pc' = "resolved"
    /\ UNCHANGED <<config, data, db_rows, loop_vars>>

\* find_relevant_eppo on the label it returned before
FindRelevantEppoAgain ==
    /\ pc = "resolved"
    /\ ret.eppo # None
    /\ ret' = [ret EXCEPT !.again = find_relevant_eppo(ret.eppo,
                                       data[1].cotyledon, config.eppo_codes)]
    /\ pc' = "resolved_again"
    /\ UNCHANGED <<config, data, db_rows, loop_vars>>

\* row_to_yolo_format on the row
RowToYolo ==
    /\ pc = "input"
    /\ ret' = [ret EXCEPT !.yolo = row_to_yolo_format(data[1], config.eppo_codes)]
    /\ pc' = "encoded"
    /\ UNCHANGED <<config, data, db_rows, loop_vars>>

NextResolve == FindRelevantEppo \/ FindRelevantEppoAgain \/ RowToYolo

SpecResolve == InitResolve /\ [][NextResolve]_vars

-----------------------------------------------------------------------------
(* SpecFilter: process_psez_annotations on at most MaxRows rows of two     *)
(* images, then partition_by_image_id and create_label_file per group.     *)

FilterImageIds == {42, 7}
FilterCrops == {<<SOLTU>>, <<SOLTU, PSEZ>>}

\* class code and box of a row: crop rows and suffixed crop rows on the
\* container box or away from it, PSEZ rows inside, outside, or on it
FilterRowKinds ==
    {[EPPOCode |-> SOLTU, box |-> <<10, 10, 20, 20>>],
     [EPPOCode |-> SOLTU, box |-> <<100, 100, 110, 110>>],
     [EPPOCode |-> SOLTU1, box |-> <<10, 10, 20, 20>>],
     [EPPOCode |-> PSEZ, box |-> <<12, 12, 18, 18>>],
     [EPPOCode |-> PSEZ, box |-> <<100, 100, 110, 110>>],
     [EPPOCode |-> PSEZ, box |-> <<10, 10, 20, 20>>]}

FilterRows(n) ==
    [1..n -> {[ImageId |-> i, EPPOCode |-> k.EPPOCode, box |-> k.box] :
                 i \in FilterImageIds, k \in FilterRowKinds}]

LabelUnset == [image_id |-> 0, kind |-> "unset", lines |-> <<>>]

InitFilter ==
    /\ config \in {[BaseConfig EXCEPT !.psez_crops = c] : c \in FilterCrops}
    /\ \E n \in 1..MaxRows : \E q \in FilterRows(n) :
          db_rows = [i \in 1..n |-> Row(i, q[i].ImageId, 1, q[i].EPPOCode, 0,
                                        q[i].box, FALSE)]
    /\ data = db_rows
    /\ pc = "fetched"
    /\ ret = LabelUnset
    /\ LoopIdle

\* extraction.py line 75
ProcessPsez ==
    /\ pc = "fetched"
    /\ data' = process_psez_annotations(data, config.psez_crops)
    /\ pc' = "filtered"
    /\ UNCHANGED <<config, db_rows, ret, loop_vars>>

\* process_psez_annotations on its own output, with the same crops
ProcessPsezAgain ==
    /\ pc = "filtered"
    /\ data' = process_psez_annotations(data, config.psez_crops)
    /\ pc' = "filtered_again"
    /\ UNCHANGED <<config, db_rows, ret, loop_vars>>

\* extraction.py line 79
PartitionByImage ==
    /\ pc = "filtered"
    /\ data_by_image' = partition_by_image_id(data)
    /\ pos' = 1
    /\ pc' = "partitioned"
    /\ UNCHANGED <<config, data, db_rows, ret, rng, stats, image_files,
                   label_files, split_log, prev_log, dataset_yaml, run>>

\* create_label_file on the next group
CreateLabelFile ==
    /\ pc \in {"partitioned", "labelled"}
    /\ pos <= Len(data_by_image)
    /\ LET annotations == data_by_image[pos]
           written == create_label_file(annotations, config.eppo_codes)
       IN  ret' = [image_id |-> annotations[1].ImageId,
                   kind |-> written.kind, lines |-> written.lines]
    /\ pos' = pos + 1
    /\ pc' = "labelled"
    /\ UNCHANGED <<config, data, db_rows, data_by_image, rng, stats,
                   image_files, label_files, split_log, prev_log, dataset_yaml, run>>

NextFilter == ProcessPsez \/ ProcessPsezAgain \/ PartitionByImage \/ CreateLabelFile

SpecFilter == InitFilter /\ [][NextFilter]_vars

-----------------------------------------------------------------------------
(* SpecEnclosed: center_enclosed on an inner and an outer box, then on     *)
(* both boxes moved by the same offset.                                    *)

MaxOffset == 3

InnerCoords == {4, 5, 6}
OuterCoords == {0, 5, 10}
Offsets == {<<dx, dy>> : dx, dy \in {-MaxOffset, 0, MaxOffset}}

EnclosedUnset == [plain |-> "unset", moved |-> "unset", offset |-> <<0, 0>>]

\* a box moved by an offset
Translate(box, offset) ==
    <<box[1] + offset[1], box[2] + offset[2],
      box[3] + offset[1], box[4] + offset[2]>>

\* the first row holds the inner box, the second the outer box
InitEnclosed ==
    /\ config = BaseConfig
    /\ \E ix1, iy1, ix2, iy2 \in InnerCoords :
       \E ox1, oy1, ox2, oy2 \in OuterCoords :
          db_rows = <<Row(1, 42, 1, PSEZ, 0, <<ix1, iy1, ix2, iy2>>, FALSE),
                      Row(2, 42, 1, SOLTU, 0, <<ox1, oy1, ox2, oy2>>, FALSE)>>
    /\ data = db_rows
    /\ pc = "boxes"
    /\ ret = EnclosedUnset
    /\ LoopIdle

\* center_enclosed(psez_box, crop_box), as processing.py lines 60-70 call it
CenterEnclosed ==
    /\ pc = "boxes"
    /\ ret' = [ret EXCEPT !.plain = center_enclosed(Box(data[1]), Box(data[2]))]
    /\ pc' = "tested"
    /\ UNCHANGED <<config, data, db_rows, loop_vars>>

\* center_enclosed on the two boxes moved by one offset
CenterEnclosedMoved ==
    /\ pc = "tested"
    /\ \E offset \in Offsets :
          ret' = [ret EXCEPT !.offset = offset,
                             !.moved = center_enclosed(
                                           Translate(Box(data[1]), offset),
                                           Translate(Box(data[2]), offset))]
    /\ pc' = "tested_moved"
    /\ UNCHANGED <<config, data, db_rows, loop_vars>>

NextEnclosed == CenterEnclosed \/ CenterEnclosedMoved

SpecEnclosed == InitEnclosed /\ [][NextEnclosed]_vars

-----------------------------------------------------------------------------
(* processing.py: determine_dataset_split, with the seeded generator.      *)
(* The generator is a deterministic sequence of RngModulus states; a draw  *)
(* advances it once and yields the uniform number rng / RngModulus.        *)

\* np.random.RandomState(seed)
RandomState(seed) == seed % RngModulus

\* mutant: the extractor draws from the generator it finds, without seeding
NewRng_unseeded(cfg, found) == found

\* DatasetExtractor.__init__, lines 35-37: a new generator seeded with
\* config['random_seed'], whatever state an earlier generator is in
NewRng(cfg, found) == RandomState(cfg.random_seed)

\* one step of the generator
RngNext(r) == (5 * r + 3) % RngModulus

\* mutant: the cumulative distribution is searched with side = 'left'
Choice_side_left(p, u) ==
    LET total == p.train + p.val + p.test IN
    (IF p.train * RngModulus < u * total THEN 1 ELSE 0)
    + (IF (p.train + p.val) * RngModulus < u * total THEN 1 ELSE 0)

\* rng.choice(3, p = probabilities / probabilities.sum()) for the uniform
\* number u / RngModulus: the number of entries of the cumulative
\* distribution that are <= it (searchsorted, side = 'right')
Choice(p, u) ==
    LET total == p.train + p.val + p.test IN
    (IF p.train * RngModulus <= u * total THEN 1 ELSE 0)
    + (IF (p.train + p.val) * RngModulus <= u * total THEN 1 ELSE 0)

SplitNames == <<"train", "val", "test">>

\* mutant: the fixed image lists are looked up before the upload lists
FixedSplit_images_first(upload_id, image_id, fixed_sets) ==
    IF image_id \in fixed_sets.train_images THEN "train"
    ELSE IF image_id \in fixed_sets.val_images THEN "val"
    ELSE IF image_id \in fixed_sets.test_images THEN "test"
    ELSE IF upload_id \in fixed_sets.train_uploads THEN "train"
    ELSE IF upload_id \in fixed_sets.val_uploads THEN "val"
    ELSE IF upload_id \in fixed_sets.test_uploads THEN "test"
    ELSE "none"

\* the fixed upload lists, then the fixed image lists (lines 163-178);
\* "none" when no list holds the group
FixedSplit(upload_id, image_id, fixed_sets) ==
    IF upload_id \in fixed_sets.train_uploads THEN "train"
    ELSE IF upload_id \in fixed_sets.val_uploads THEN "val"
    ELSE IF upload_id \in fixed_sets.test_uploads THEN "test"
    ELSE IF image_id \in fixed_sets.train_images THEN "train"
    ELSE IF image_id \in fixed_sets.val_images THEN "val"
    ELSE IF image_id \in fixed_sets.test_images THEN "test"
    ELSE "none"

\* the weighted draw of lines 184-197; numpy raises ValueError when the
\* weights do not normalise to a distribution
RandomSplit(split_probs, r) ==
    IF \/ split_probs.train + split_probs.val + split_probs.test = 0
       \/ split_probs.train < 0 \/ split_probs.val < 0 \/ split_probs.test < 0
    THEN [kind |-> "raise", split |-> "none", rng |-> r, drew |-> FALSE]
    ELSE [kind |-> "ok",
          split |-> SplitNames[Choice(split_probs, RngNext(r)) + 1],
          rng |-> RngNext(r), drew |-> TRUE]

\* mutant: grown images go to train before the fixed lists are looked up
determine_dataset_split_grown_first(data_rows, cfg, r) ==
    LET row == data_rows[1]
        fixed == FixedSplit(row.UploadId, row.ImageId, cfg.fixed_sets)
    IN  IF row.GrownWeed
            THEN [kind |-> "ok", split |-> "train", rng |-> r, drew |-> FALSE]
        ELSE IF fixed # "none"
            THEN [kind |-> "ok", split |-> fixed, rng |-> r, drew |-> FALSE]
        ELSE RandomSplit(cfg.split_probabilities, r)

\* mutant: the draw is made for every group, before the lists are looked up
determine_dataset_split_always_draws(data_rows, cfg, r) ==
    LET row == data_rows[1]
        fixed == FixedSplit(row.UploadId, row.ImageId, cfg.fixed_sets)
        drawn == RandomSplit(cfg.split_probabilities, r)
    IN  IF fixed # "none"
            THEN [kind |-> "ok", split |-> fixed, rng |-> drawn.rng, drew |-> FALSE]
        ELSE IF row.GrownWeed
            THEN [kind |-> "ok", split |-> "train", rng |-> drawn.rng, drew |-> FALSE]
        ELSE drawn

determine_dataset_split(data_rows, cfg, r) ==
    LET row == data_rows[1]
        fixed == FixedSplit(row.UploadId, row.ImageId, cfg.fixed_sets)
    IN  IF fixed # "none"
            THEN [kind |-> "ok", split |-> fixed, rng |-> r, drew |-> FALSE]
        ELSE IF row.GrownWeed
            THEN [kind |-> "ok", split |-> "train", rng |-> r, drew |-> FALSE]
        ELSE RandomSplit(cfg.split_probabilities, r)

-----------------------------------------------------------------------------
(* SpecSplit: determine_dataset_split on one group, for every combination  *)
(* of fixed-list membership, grown flag, weights and generator state.      *)

SplitFixedSets ==
    [train_uploads |-> {10}, val_uploads |-> {10, 20}, test_uploads |-> {20, 30},
     train_images |-> {1}, val_images |-> {1, 2}, test_images |-> {2, 3}]

SplitUploads == {10, 20, 30, 40}
SplitWeights == {[train |-> 70, val |-> 15, test |-> 15],
                 [train |-> 1, val |-> 1, test |-> 1],
                 [train |-> 0, val |-> 1, test |-> 1],
                 [train |-> 1, val |-> 0, test |-> 0],
                 [train |-> 1, val |-> 0, test |-> 1],
                 [train |-> 0, val |-> 0, test |-> 0]}

SplitUnset == [kind |-> "unset", split |-> "none", rng |-> 0, drew |-> FALSE]

InitSplit ==
    /\ config \in {[BaseConfig EXCEPT !.fixed_sets = SplitFixedSets,
                                      !.split_probabilities = w] :
                      w \in SplitWeights}
    /\ \E i \in 1..(MaxImages + 1), u \in SplitUploads, g \in BOOLEAN :
          db_rows = <<Row(1, i, u, SOLTU, 0, <<10, 10, 20, 20>>, g)>>
    /\ data = db_rows
    /\ pc = "group"
    /\ ret = SplitUnset
    /\ NoOutput
    /\ rng \in 0..(RngModulus - 1)

\* determine_dataset_split on the group, with the generator in any state
DetermineSplit ==
    /\ pc = "group"
    /\ LET d == determine_dataset_split(data, config, rng) IN
        /\ ret' = d
        /\ rng' = d.rng
    /\ pc' = "split"
    /\ UNCHANGED <<config, data, db_rows, data_by_image, pos, stats, image_files,
                   label_files, split_log, prev_log, dataset_yaml, run>>

NextSplit == DetermineSplit

SpecSplit == InitSplit /\ [][NextSplit]_vars

-----------------------------------------------------------------------------
(* queries.py: filter_held_back_images; extraction.py: extract and         *)
(* _create_dataset_files.                                                  *)

\* mutant: the held-back filter keeps every row
filter_held_back_images_keeps_all(rows, held_back_images) == rows

filter_held_back_images(rows, held_back_images) ==
    SelectSeq(rows, LAMBDA r : r.ImageId \notin held_back_images)

\* stats[key] += n
Bump(st, key, n) == [st EXCEPT ![key] = @ + n]

ImagesKey(split) ==
    IF split = "train" THEN "train_images"
    ELSE IF split = "val" THEN "val_images" ELSE "test_images"

AnnotationsKey(split) ==
    IF split = "train" THEN "train_annotations"
    ELSE IF split = "val" THEN "val_annotations" ELSE "test_annotations"

\* mutant: total_annotations counts the image, not its rows
CountImage_total_by_image(st, split, n) ==
    Bump(Bump(Bump(st, ImagesKey(split), 1), AnnotationsKey(split), n),
         "total_annotations", 1)

\* lines 172-175
CountImage(st, split, n) ==
    Bump(Bump(Bump(st, ImagesKey(split), 1), AnnotationsKey(split), n),
         "total_annotations", n)

\* mutant: a group whose source image is missing is counted in its split too
UpdateStats_skipped_counted(st, outcome, split, n) ==
    IF outcome = "skipped"
        THEN CountImage(Bump(st, "skipped_images", 1), split, n)
    ELSE IF outcome = "ok" THEN CountImage(st, split, n)
    ELSE Bump(st, "errors", 1)

\* mutant: a group whose processing failed is counted in its split, not in errors
UpdateStats_error_counted_in_split(st, outcome, split, n) ==
    IF outcome = "skipped" THEN Bump(st, "skipped_images", 1)
    ELSE CountImage(st, split, n)

\* mutant: a group whose processing failed is counted nowhere
UpdateStats_errors_dropped(st, outcome, split, n) ==
    IF outcome = "skipped" THEN Bump(st, "skipped_images", 1)
    ELSE IF outcome = "ok" THEN CountImage(st, split, n)
    ELSE st

\* mutant: a failed group is counted in errors by both except clauses
UpdateStats_error_twice(st, outcome, split, n) ==
    IF outcome = "skipped" THEN Bump(st, "skipped_images", 1)
    ELSE IF outcome = "ok" THEN CountImage(st, split, n)
    ELSE Bump(st, "errors", 2)

\* what one pass of the loop does to stats: lines 153 (missing source),
\* 161 and 169 (a handler call raised), 173-175 (both files written)
UpdateStats(st, outcome, split, n) ==
    IF outcome = "skipped" THEN Bump(st, "skipped_images", 1)
    ELSE IF outcome = "ok" THEN CountImage(st, split, n)
    ELSE Bump(st, "errors", 1)

\* YOLOv11Format and its base class define create_image_symlink and no
\* create_image_file: the call of line 158 raises AttributeError
create_image_file_yolov11 == {"raise"}

\* YOLOv5Format's file placement: the image is placed, or the placement fails
create_image_file_yolov5 == {"ok", "raise"}

\* how YOLOv5Format's file placement places an image: by copy when
\* copy_images is set, by symlink otherwise
place_image_yolov5(copy_images) == IF copy_images THEN "copy" ELSE "symlink"

\* what format_handler.create_image_file can answer, by handler
create_image_file(format) ==
    IF format = "yolov11" THEN create_image_file_yolov11
    ELSE create_image_file_yolov5

\* mutant: the labels of every split go under the train directory
get_split_paths_labels_in_train(split) ==
    [images_dir |-> split, labels_dir |-> "train"]

\* YOLOFormatBase.get_split_paths: the image and the label directory of a
\* split, each named by its split
get_split_paths(split) == [images_dir |-> split, labels_dir |-> split]

\* mutant: the annotation counters count the label lines written
AnnotationCount_lines_written(annotations, cfg) ==
    Len(create_label_file(annotations, cfg.eppo_codes).lines)

\* len(annotations) of lines 174-175: the rows of the group
AnnotationCount(annotations, cfg) == Len(annotations)

\* what one pass of the loop body does after the split is decided, by what
\* the file system and the format handler answer:
\*   "skipped"      the source image does not exist (lines 151-154)
\*   "image_error"  create_image_file raises (lines 157-162); the YOLOv11
\*                  handler defines no create_image_file, so it always does
\*   "label_error"  create_label_file raises (lines 165-170): the class-index
\*                  lookup of a row raises, or the file cannot be written
\*   "ok"           both files are written and the image is counted
Outcomes(annotations, cfg) ==
    {"skipped"}
    \cup (IF "raise" \in create_image_file(cfg.format) THEN {"image_error"} ELSE {})
    \cup (IF "ok" \in create_image_file(cfg.format) THEN {"label_error"} ELSE {})
    \cup (IF /\ "ok" \in create_image_file(cfg.format)
             /\ create_label_file(annotations, cfg.eppo_codes).kind = "ok"
          THEN {"ok"} ELSE {})

LogEntry(image_id, d, outcome) ==
    [image_id |-> image_id, split |-> d.split, drew |-> d.drew,
     outcome |-> outcome]

\* mutant: an empty result of the query is processed like any other
NoData_never(rows) == FALSE

\* len(data) == 0, line 58
NoData(rows) == Len(rows) = 0

\* lines 54-84 of extract up to the loop: fetch, the no-data return, the
\* held-back filter, the PSEZ filter, the partition, the fresh statistics
StartExtract ==
    /\ pc = "start"
    /\ IF NoData(db_rows)
       THEN /\ pc' = "no_data"
            /\ ret' = [kind |-> "error", stats |-> InitStats(0)]
            /\ UNCHANGED <<data, data_by_image, pos, stats>>
       ELSE LET kept == process_psez_annotations(
                            filter_held_back_images(db_rows, config.held_back_images),
                            config.psez_crops)
            IN  /\ data' = kept
                /\ data_by_image' = partition_by_image_id(kept)
                /\ stats' = InitStats(Len(partition_by_image_id(kept)))
                /\ pos' = 1
                /\ pc' = "loop"
                /\ UNCHANGED ret
    /\ UNCHANGED <<config, db_rows, rng, image_files, label_files, split_log,
                   prev_log, dataset_yaml, run>>

\* the query raises: extract logs and re-raises (lines 93-97)
QueryFails ==
    /\ pc = "start"
    /\ pc' = "raised"
    /\ ret' = [kind |-> "raised", stats |-> InitStats(0)]
    /\ UNCHANGED <<config, data, db_rows, loop_vars>>

\* one pass of the loop of _create_dataset_files, lines 134-183
ProcessImage ==
    /\ pc = "loop"
    /\ pos <= Len(data_by_image)
    /\ LET annotations == data_by_image[pos]
           image_id == annotations[1].ImageId
           d == determine_dataset_split(annotations, config, rng)
       IN  /\ rng' = d.rng
           /\ IF d.kind = "raise"
              THEN /\ stats' = Bump(stats, "errors", 1)
                   /\ split_log' = Append(split_log, LogEntry(image_id, d, "split_error"))
                   /\ UNCHANGED <<image_files, label_files>>
              ELSE \E outcome \in Outcomes(annotations, config) :
                   /\ split_log' = Append(split_log, LogEntry(image_id, d, outcome))
                   /\ stats' = UpdateStats(stats, outcome, d.split,
                                         AnnotationCount(annotations, config))
                   /\ image_files' =
                        IF outcome \in {"label_error", "ok"}
                            THEN image_files \cup
                                 {<<get_split_paths(d.split).images_dir, image_id,
                                    place_image_yolov5(config.copy_images)>>}
                        ELSE image_files
                   /\ label_files' =
                        IF outcome = "ok"
                            THEN label_files \cup
                                 {[split |-> get_split_paths(d.split).labels_dir,
                                   image_id |-> image_id,
                                   lines |-> create_label_file(annotations,
                                                 config.eppo_codes).lines]}
                        ELSE label_files
    /\ pos' = pos + 1
    /\ UNCHANGED <<config, data, db_rows, pc, ret, data_by_image, prev_log,
                   dataset_yaml, run>>

\* the loop is over: create_dataset_yaml, return stats (lines 86-91)
FinishExtract ==
    /\ pc = "loop"
    /\ pos > Len(data_by_image)
    /\ dataset_yaml' = [nc |-> Len(config.eppo_codes), names |-> config.eppo_codes]
    /\ ret' = [kind |-> "stats", stats |-> stats]
    /\ pc' = "done"
    /\ UNCHANGED <<config, data, db_rows, data_by_image, pos, rng, stats,
                   image_files, label_files, split_log, prev_log, run>>

Seeds == {42, 7}

\* a second run: run.py builds a new extractor (DatasetExtractor.__init__
\* seeds a new generator) on the same rows, with an empty output directory
NewRun ==
    /\ pc = "done"
    /\ run = 1
    /\ \E seed \in Seeds : config' = [config EXCEPT !.random_seed = seed]
    /\ rng' = NewRng(config', rng)
    /\ prev_log' = [seed |-> config.random_seed,
                    entries |-> [k \in 1..Len(split_log) |->
                                    [image_id |-> split_log[k].image_id,
                                     split |-> split_log[k].split,
                                     drew |-> split_log[k].drew]]]
    /\ run' = 2
    /\ pc' = "start"
    /\ data' = <<>>
    /\ data_by_image' = <<>>
    /\ pos' = 0
    /\ stats' = InitStats(0)
    /\ image_files' = {}
    /\ label_files' = {}
    /\ split_log' = <<>>
    /\ dataset_yaml' = <<>>
    /\ ret' = [kind |-> "unset", stats |-> InitStats(0)]
    /\ UNCHANGED db_rows

MainFixedSets ==
    [train_uploads |-> {10}, val_uploads |-> {20}, test_uploads |-> {},
     train_images |-> {}, val_images |-> {}, test_images |-> {1}]

\* the last configuration has weights that do not normalise: the draw raises
MainConfigs ==
    {[BaseConfig EXCEPT !.fixed_sets = MainFixedSets,
                        !.split_probabilities = [train |-> c[4], val |-> 1 - c[5],
                                                 test |-> 1 - c[5]],
                        !.random_seed = c[1], !.format = c[2],
                        !.held_back_images = c[3], !.copy_images = c[6]] :
        c \in {<<42, "yolov5", {}, 2, 0, FALSE>>, <<7, "yolov11", {2}, 2, 0, TRUE>>,
               <<7, "yolov5", {}, 2, 0, TRUE>>, <<42, "yolov5", {2}, 0, 1, FALSE>>}}

\* the rows of image i, by kind of image; "absent": the image has no rows
ImageKinds == {"absent", "free", "grown", "train_upload", "val_upload"}

ImageRows(i, kind) ==
    IF kind = "free" THEN
        <<Row(10 * i + 1, i, 40, SOLTU1, 0, <<10, 10, 20, 20>>, FALSE),
          Row(10 * i + 2, i, 40, SOLTU, 0, <<10, 10, 20, 20>>, FALSE),
          Row(10 * i + 3, i, 40, PSEZ, 0, <<12, 12, 18, 18>>, FALSE),
          Row(10 * i + 4, i, 40, PSEZ, 0, <<100, 100, 110, 110>>, FALSE)>>
    ELSE IF kind = "grown" THEN
        <<Row(10 * i + 1, i, 40, SOLTU, 0, <<0, 0, 100, 100>>, TRUE),
          Row(10 * i + 2, i, 40, ZZZZZ, 0, <<10, 10, 20, 20>>, TRUE)>>
    ELSE IF kind = "train_upload" THEN
        <<Row(10 * i + 1, i, 10, ZZZZZ, 0, <<10, 10, 20, 20>>, FALSE)>>
    ELSE IF kind = "val_upload" THEN
        <<Row(10 * i + 1, i, 20, ZZZZZ, -100, <<10, 10, 20, 20>>, TRUE)>>
    ELSE <<>>

RECURSIVE RowsOf(_, _)
\* the rows of images 1..n of the given kinds
RowsOf(kinds, n) ==
    IF n = 0 THEN <<>> ELSE RowsOf(kinds, n - 1) \o ImageRows(n, kinds[n])

Init ==
    /\ config \in MainConfigs
    /\ \E kinds \in [1..MaxImages -> ImageKinds] :
          db_rows = RowsOf(kinds, MaxImages)
    /\ data = <<>>
    /\ pc = "start"
    /\ ret = [kind |-> "unset", stats |-> InitStats(0)]
    /\ NoOutput
    /\ rng = NewRng(config, 0)

Next == StartExtract \/ QueryFails \/ ProcessImage \/ FinishExtract \/ NewRun

Spec == Init /\ [][Next]_vars

-----------------------------------------------------------------------------
(* Claims about the PSEZ filter (SpecFilter).                              *)

InData(row) == \E k \in 1..Len(data) : data[k] = row

\* a non-PSEZ row of db_rows, of the given image, with a class code among
\* the container codes, whose box encloses the centre of psez_row
HasContainer(psez_row, image_id) ==
    \E j \in 1..Len(db_rows) :
        /\ db_rows[j].EPPOCode # PSEZ
        /\ db_rows[j].ImageId = image_id
        /\ InList(db_rows[j].EPPOCode, config.psez_crops)
        /\ center_enclosed(Box(psez_row), Box(db_rows[j]))

\* C1: after the filter a PSEZ row is in the output if and only if a
\* non-PSEZ row of the same image with a container class code encloses its
\* centre; containers of other images do not count.
C1_PsezKeptIffEnclosed ==
    pc # "fetched" =>
        \A i \in 1..Len(db_rows) :
            db_rows[i].EPPOCode = PSEZ =>
                (InData(db_rows[i]) <=> HasContainer(db_rows[i], db_rows[i].ImageId))

\* C1 witness: one PSEZ row is kept, another is dropped although a
\* container of the other image encloses it.
C1_Witness ==
    /\ pc = "filtered"
    /\ \E i, j \in 1..Len(db_rows) :
        /\ db_rows[i].EPPOCode = PSEZ /\ InData(db_rows[i])
        /\ db_rows[j].EPPOCode = PSEZ /\ ~InData(db_rows[j])
        /\ \E other \in FilterImageIds \ {db_rows[j].ImageId} :
              HasContainer(db_rows[j], other)

ScenarioRows ==
    <<Row(1, 42, 1, SOLTU1, 0, <<10, 10, 20, 20>>, FALSE),
      Row(2, 42, 1, PSEZ, 0, <<12, 12, 18, 18>>, FALSE),
      Row(3, 42, 1, PSEZ, 0, <<100, 100, 110, 110>>, FALSE)>>

InScenario ==
    /\ db_rows = ScenarioRows
    /\ config.eppo_codes = <<SOLTU, PSEZ>>
    /\ config.psez_crops = <<SOLTU>>

\* C2: in the end-to-end scenario (image 42, rows SOLTU1, enclosed PSEZ,
\* unenclosed PSEZ, vocabulary [SOLTU, PSEZ], psez_crops [SOLTU]) the label
\* file of image 42 has exactly two lines: the SOLTU row's (class 0) and
\* the enclosed PSEZ row's (class 1).
C2_ScenarioTwoLines ==
    (pc = "labelled" /\ InScenario /\ ret.image_id = 42) =>
        /\ ret.kind = "ok"
        /\ Len(ret.lines) = 2
        /\ ret.lines[1][1] = 0
        /\ ret.lines[2][1] = 1

-----------------------------------------------------------------------------
(* Claims about class resolution and the encoder (SpecResolve).            *)

InputCode == data[1].EPPOCode
InputAux == data[1].cotyledon

PrefixEntries == {i \in 1..Len(config.eppo_codes) :
                     StartsWith(InputCode, config.eppo_codes[i])}

FirstPrefixEntry ==
    config.eppo_codes[CHOOSE i \in PrefixEntries : \A j \in PrefixEntries : i <= j]

\* C6: when the class code has vocabulary entries as prefixes it is
\* collapsed to the first of them in vocabulary order (and that entry is
\* returned); when none matches the code is left unchanged.
C6_FirstPrefixWins ==
    pc = "resolved" =>
        /\ PrefixEntries # {} => ret.eppo = FirstPrefixEntry
        /\ PrefixEntries = {} => ret.eppo \in {None, PPPMM, PPPDD}

\* C7: a code with a vocabulary entry as prefix resolves to a vocabulary
\* entry that is a prefix of it, whatever the discriminator; any other code
\* resolves to PPPMM for -100, to PPPDD for -101 and to nothing otherwise.
C7_Fallbacks ==
    pc = "resolved" =>
        /\ PrefixEntries # {} =>
              /\ InList(ret.eppo, config.eppo_codes)
              /\ StartsWith(InputCode, ret.eppo)
        /\ PrefixEntries = {} =>
              ret.eppo = (IF InputAux = -100 THEN PPPMM
                          ELSE IF InputAux = -101 THEN PPPDD ELSE None)
        /\ config.eppo_codes = <<SOLTU, PPPMM, PPPDD>> =>
              /\ InputCode = SOLTU2 => ret.eppo = SOLTU
              /\ (InputCode = ZZZZZ /\ InputAux = -100) => ret.eppo = PPPMM
              /\ (InputCode = ZZZZZ /\ InputAux = -101) => ret.eppo = PPPDD
              /\ (InputCode = ZZZZZ /\ InputAux = 0) => ret.eppo = None

\* C7 witness: ZZZZZ with -101 resolved to PPPDD under the vocabulary of
\* the example.
C7_Witness ==
    /\ pc = "resolved"
    /\ config.eppo_codes = <<SOLTU, PPPMM, PPPDD>>
    /\ InputCode = ZZZZZ /\ InputAux = -101
    /\ ret.eppo = PPPDD

C9_LabelInVocabulary ==
    /\ (pc = "resolved" /\ ret.eppo # None) => InList(ret.eppo, config.eppo_codes)
    /\ pc = "encoded" => ret.yolo.kind # "raise"

HasNullCoordinate(row) ==
    IsNaN(row.MinX) \/ IsNaN(row.MinY) \/ IsNaN(row.MaxX) \/ IsNaN(row.MaxY)

ResolvesToNothing(row) ==
    \/ row.EPPOCode = NaNCode
    \/ /\ \A i \in 1..Len(config.eppo_codes) :
            ~StartsWith(row.EPPOCode, config.eppo_codes[i])
       /\ row.cotyledon \notin {-100, -101}

\* C10: row_to_yolo_format returns no line, so the row adds nothing to the
\* label file, whenever the row's class resolves to nothing or one of its
\* four coordinates is null (a raise of the class-index lookup aside).
C10_NothingOnNullOrUnresolved ==
    (pc = "encoded" /\ (ResolvesToNothing(data[1]) \/ HasNullCoordinate(data[1]))) =>
        ret.yolo.kind # "line"

-----------------------------------------------------------------------------
(* Claims about split assignment (SpecSplit, Spec).                        *)

GroupUpload == data[1].UploadId
GroupImage == data[1].ImageId
GroupGrown == data[1].GrownWeed

InUploadList == \/ GroupUpload \in config.fixed_sets.train_uploads
                \/ GroupUpload \in config.fixed_sets.val_uploads
                \/ GroupUpload \in config.fixed_sets.test_uploads

InImageList == \/ GroupImage \in config.fixed_sets.train_images
               \/ GroupImage \in config.fixed_sets.val_images
               \/ GroupImage \in config.fixed_sets.test_images

\* C3: first match wins: the upload lists in the order train, val, test;
\* then the image lists in the same order; then a grown group goes to
\* train; then, and only then, the weighted draw.
C3_PriorityOrder ==
    pc = "split" =>
        LET fs == config.fixed_sets IN
        /\ GroupUpload \in fs.train_uploads => ret.split = "train"
        /\ (GroupUpload \notin fs.train_uploads /\ GroupUpload \in fs.val_uploads)
              => ret.split = "val"
        /\ (GroupUpload \notin fs.train_uploads \cup fs.val_uploads
              /\ GroupUpload \in fs.test_uploads) => ret.split = "test"
        /\ ~InUploadList =>
              /\ GroupImage \in fs.train_images => ret.split = "train"
              /\ (GroupImage \notin fs.train_images /\ GroupImage \in fs.val_images)
                    => ret.split = "val"
              /\ (GroupImage \notin fs.train_images \cup fs.val_images
                    /\ GroupImage \in fs.test_images) => ret.split = "test"
        /\ (~InUploadList /\ ~InImageList /\ GroupGrown) => ret.split = "train"
        /\ (InUploadList \/ InImageList \/ GroupGrown) =>
              ret.kind = "ok" /\ ~ret.drew
        /\ (~InUploadList /\ ~InImageList /\ ~GroupGrown) =>
              \/ ret.kind = "raise"
              \/ ret.drew /\ ret.split \in Splits

\* C3 witness: a grown group whose upload is in val_uploads and whose image
\* is in train_images was assigned to val.
C3_Witness ==
    /\ pc = "split"
    /\ GroupUpload \in config.fixed_sets.val_uploads
    /\ GroupUpload \notin config.fixed_sets.train_uploads
    /\ GroupImage \in config.fixed_sets.train_images
    /\ GroupGrown
    /\ ret.split = "val"

\* C4: in a second run with the seed of the first, on the same groups in
\* the same order, every group that got its split from the weighted draw
\* in the first run gets the same split from the draw again.
C4_SameSeedSameSplits ==
    (run = 2 /\ config.random_seed = prev_log.seed) =>
        \A k \in 1..Len(split_log) :
            /\ split_log[k].image_id = prev_log.entries[k].image_id
            /\ split_log[k].drew = prev_log.entries[k].drew
            /\ split_log[k].drew => split_log[k].split = prev_log.entries[k].split

\* C4 witness: the second run with the same seed is over, two groups drew
\* their split and the first of them was skipped.
C4_Witness ==
    /\ run = 2 /\ pc = "done" /\ config.random_seed = prev_log.seed
    /\ \E j, k \in 1..Len(split_log) :
        /\ j < k
        /\ split_log[j].drew /\ split_log[j].outcome = "skipped"
        /\ split_log[k].drew

\* the k-th group of the loop is in a fixed upload or image list
LoopGroupFixed(k) ==
    LET row == data_by_image[k][1]
        fs == config.fixed_sets
    IN  \/ row.UploadId \in fs.train_uploads \cup fs.val_uploads \cup fs.test_uploads
        \/ row.ImageId \in fs.train_images \cup fs.val_images \cup fs.test_images

\* the list of the split holds the k-th group
InListOfSplit(k, split) ==
    LET row == data_by_image[k][1]
        fs == config.fixed_sets
    IN  \/ split = "train" /\ (row.UploadId \in fs.train_uploads \/ row.ImageId \in fs.train_images)
        \/ split = "val" /\ (row.UploadId \in fs.val_uploads \/ row.ImageId \in fs.val_images)
        \/ split = "test" /\ (row.UploadId \in fs.test_uploads \/ row.ImageId \in fs.test_images)

\* C5: a group of a fixed list gets its split without a draw, the split is
\* that of a list holding it, and a second run gives it the same split
\* whatever the two seeds are and wherever the group is in the order.
C5_FixedIgnoresRng ==
    \A k \in 1..Len(split_log) :
        LoopGroupFixed(k) =>
            /\ ~split_log[k].drew
            /\ InListOfSplit(k, split_log[k].split)
            /\ run = 2 => split_log[k].split = prev_log.entries[k].split

\* C5 witness: in a second run with another seed a fixed-list group was
\* processed after a group that drew its split.
C5_Witness ==
    /\ run = 2 /\ config.random_seed # prev_log.seed
    /\ \E j, k \in 1..Len(split_log) :
        /\ j < k
        /\ split_log[j].drew
        /\ LoopGroupFixed(k)

\* equality and order of fractions with positive denominators
FracEq(a, b) == a[1] * b[2] = b[1] * a[2]
FracLess(a, b) == a[1] * b[2] < b[1] * a[2]

\* the class of the row resolves to a label that has a class index
HasClassIndex(row) ==
    /\ row.EPPOCode # NaNCode
    /\ \/ \E i \in 1..Len(config.eppo_codes) :
             StartsWith(row.EPPOCode, config.eppo_codes[i])
       \/ row.cotyledon = -100 /\ InList(PPPMM, config.eppo_codes)
       \/ row.cotyledon = -101 /\ InList(PPPDD, config.eppo_codes)

\* C11: a row with a class index and four non-null coordinates always
\* gives a line: the class index, the centre ((min + max) / 2) / size on both
\* axes and the extent (max - min) / size, unclamped. The full-image box
\* gives (0.5, 0.5, 1, 1); a box with max < min gives negative extents and
\* a box beyond the image gives values above 1.
C11_EncodesWithoutClamping ==
    (pc = "encoded" /\ HasClassIndex(data[1]) /\ ~HasNullCoordinate(data[1])) =>
        LET row == data[1]
            line == ret.yolo.line
        IN  /\ ret.yolo.kind = "line"
            /\ line[1] \in 0..(Len(config.eppo_codes) - 1)
            /\ FracEq(line[2], <<row.MinX + row.MaxX, 2 * row.Width>>)
            /\ FracEq(line[3], <<row.MinY + row.MaxY, 2 * row.Height>>)
            /\ FracEq(line[4], <<row.MaxX - row.MinX, row.Width>>)
            /\ FracEq(line[5], <<row.MaxY - row.MinY, row.Height>>)
            /\ Box(row) = <<0, 0, row.Width, row.Height>> =>
                  /\ FracEq(line[2], <<1, 2>>) /\ FracEq(line[3], <<1, 2>>)
                  /\ FracEq(line[4], <<1, 1>>) /\ FracEq(line[5], <<1, 1>>)
            /\ row.MaxX < row.MinX => FracLess(line[4], <<0, 1>>)
            /\ row.MaxX - row.MinX > row.Width => FracLess(<<1, 1>>, line[4])

\* C11 witness: lines were emitted for a box with max < min and for a box
\* wider than the image.
C11_Witness ==
    /\ pc = "encoded" /\ ret.yolo.kind = "line"
    /\ \/ Box(data[1]) = <<20, 20, 10, 10>> /\ FracLess(ret.yolo.line[4], <<0, 1>>)
       \/ Box(data[1]) = <<50, 50, 250, 250>> /\ FracLess(<<1, 1>>, ret.yolo.line[5])

-----------------------------------------------------------------------------
(* Claims about center_enclosed (SpecEnclosed).                            *)

InnerBox == Box(data[1])
OuterBox == Box(data[2])

\* C12: center_enclosed is true if and only if the centre of the inner box
\* is strictly between the outer box's edges on both axes; a centre on an
\* edge is not enclosed: inner (4,4,6,6) is not enclosed by (0,0,5,5) and
\* is enclosed by (0,0,10,10).
C12_StrictEnclosure ==
    pc = "tested" =>
        /\ ret.plain <=>
              /\ 2 * OuterBox[1] < InnerBox[1] + InnerBox[3]
              /\ InnerBox[1] + InnerBox[3] < 2 * OuterBox[3]
              /\ 2 * OuterBox[2] < InnerBox[2] + InnerBox[4]
              /\ InnerBox[2] + InnerBox[4] < 2 * OuterBox[4]
        /\ (InnerBox = <<4, 4, 6, 6>> /\ OuterBox = <<0, 0, 5, 5>>) => ~ret.plain
        /\ (InnerBox = <<4, 4, 6, 6>> /\ OuterBox = <<0, 0, 10, 10>>) => ret.plain

\* C12 witness: the centre (5, 5) on the corner of the outer box (0, 0, 5, 5)
\* was found not enclosed.
C12_Witness ==
    /\ pc = "tested"
    /\ InnerBox = <<4, 4, 6, 6>> /\ OuterBox = <<0, 0, 5, 5>>
    /\ ret.plain = FALSE

\* C13: center_enclosed gives the same answer for the two boxes and for the
\* two boxes moved by the same offset.
C13_TranslationInvariant ==
    pc = "tested_moved" => ret.moved = ret.plain

\* C13 witness: an enclosed pair moved by an offset that is not zero on
\* either axis is still enclosed.
C13_Witness ==
    /\ pc = "tested_moved"
    /\ ret.offset[1] # 0 /\ ret.offset[2] # 0
    /\ ret.plain = TRUE /\ ret.moved = TRUE

-----------------------------------------------------------------------------
(* Claims about the extraction loop (Spec).                                *)

\* the k-th pass of the loop found the source image
SourceExists(k) == split_log[k].outcome # "skipped"

\* a file operation of the k-th pass failed: the handler has a file
\* placement and it failed, or the rows were encoded and the label file
\* could not be written
FileOperationFailed(k) ==
    \/ /\ split_log[k].outcome = "image_error"
       /\ "ok" \in create_image_file(config.format)
    \/ /\ split_log[k].outcome = "label_error"
       /\ create_label_file(data_by_image[k], config.eppo_codes).kind = "ok"

HasImageFile(split, image_id) ==
    \E f \in image_files : f[1] = split /\ f[2] = image_id

HasLabelFile(split, image_id) ==
    \E f \in label_files : f.split = split /\ f.image_id = image_id

\* C14: every group whose source image exists and whose file operations
\* did not fail has its image under its split's image directory and a
\* label file under the same split's label directory, holding one line per
\* row the encoder accepts, in row order (no line at all when it accepts
\* no row).
C14_ImageAndLabelWritten ==
    \A k \in 1..Len(split_log) :
        (SourceExists(k) /\ ~FileOperationFailed(k)) =>
            /\ HasImageFile(split_log[k].split, split_log[k].image_id)
            /\ \E f \in label_files :
                  /\ f.split = split_log[k].split
                  /\ f.image_id = split_log[k].image_id
                  /\ f.lines = create_label_file(data_by_image[k],
                                                 config.eppo_codes).lines

\* the passes of the loop so far with the given outcome
Passes(outcome) == {k \in 1..Len(split_log) : split_log[k].outcome = outcome}

\* the passes that wrote both files of a group of the given split
Counted(split) == {k \in Passes("ok") : split_log[k].split = split}

RECURSIVE RowsCounted(_, _)
\* the rows of the groups counted for the split among the first k passes
RowsCounted(split, k) ==
    IF k = 0 THEN 0
    ELSE RowsCounted(split, k - 1)
         + (IF k \in Counted(split) THEN Len(data_by_image[k]) ELSE 0)

\* C15: a group whose source image is missing adds one to skipped_images,
\* has no image file and no label file, is in no split's image or
\* annotation count, and the loop goes on: the run is never aborted once
\* the loop has started, and it ends with every group passed.
C15_MissingSourceSkipped ==
    /\ pc \in {"loop", "done"} =>
          /\ stats.skipped_images = Cardinality(Passes("skipped"))
          /\ \A k \in Passes("skipped") : \A split \in Splits :
                /\ ~HasImageFile(split, split_log[k].image_id)
                /\ ~HasLabelFile(split, split_log[k].image_id)
          /\ \A split \in Splits :
                /\ stats[ImagesKey(split)] <=
                      Len(split_log) - Cardinality(Passes("skipped"))
                /\ stats[ImagesKey(split)] = Cardinality(Counted(split))
                /\ stats[AnnotationsKey(split)] = RowsCounted(split, Len(split_log))
          /\ pos = Len(split_log) + 1
    /\ pc = "done" => Len(split_log) = Len(data_by_image)
    /\ pc \in {"raised", "no_data"} => split_log = <<>>

\* C15 witness: the run is over; a group was skipped for its missing source
\* image and a later group was written and counted.
C15_Witness ==
    /\ pc = "done"
    /\ \E j \in Passes("skipped"), k \in Passes("ok") : j < k

\* the passes in which a call raised: the split draw, the image placement
\* or the label file
Failed == Passes("split_error") \cup Passes("image_error") \cup Passes("label_error")

\* C16: every failure while one group is processed is caught in the loop:
\* it adds one to errors, the group is in no split's image or annotation
\* count, nothing is raised to the caller once the loop has started, every
\* group is passed and extract returns the statistics.
C16_FailuresCaughtAndCounted ==
    /\ pc \in {"loop", "done"} =>
          /\ stats.errors = Cardinality(Failed)
          /\ \A split \in Splits :
                /\ stats[ImagesKey(split)] + Cardinality(Failed) <= Len(split_log)
                /\ stats[ImagesKey(split)] = Cardinality(Counted(split))
                /\ stats[AnnotationsKey(split)] = RowsCounted(split, Len(split_log))
    /\ pc = "done" =>
          /\ Len(split_log) = Len(data_by_image)
          /\ ret.kind = "stats" /\ ret.stats = stats
    /\ pc = "raised" => split_log = <<>>

\* C16 witness: the run returned its statistics after a pass failed and a
\* later group was written and counted.
C16_Witness ==
    /\ pc = "done" /\ ret.kind = "stats" /\ ret.stats.errors > 0
    /\ \E j \in Failed, k \in Passes("ok") : j < k

\* C17 as claimed: when a run is over, total_images is the sum of the three
\* split image counts and skipped_images.
C17_TotalImages ==
    pc = "done" =>
        stats.total_images = stats.train_images + stats.val_images
                             + stats.test_images + stats.skipped_images

\* C17 amended: when a run is over, total_images is the sum of the three
\* split image counts, skipped_images and errors; a group whose label file
\* has no line is counted in its split.
C17_TotalImagesWithErrors ==
    pc = "done" =>
        /\ stats.total_images = stats.train_images + stats.val_images
                                + stats.test_images + stats.skipped_images
                                + stats.errors
        /\ \A k \in Passes("ok") :
              create_label_file(data_by_image[k], config.eppo_codes).lines = <<>>
                  => k \in Counted(split_log[k].split)
        /\ \A split \in Splits :
              stats[ImagesKey(split)] = Cardinality(Counted(split))

\* C17 witness: a run is over with a failed group, a skipped group and a
\* counted group whose label file has no line.
C17_Witness ==
    /\ pc = "done"
    /\ stats.errors > 0 /\ stats.skipped_images > 0
    /\ \E k \in Passes("ok") :
          /\ create_label_file(data_by_image[k], config.eppo_codes).lines = <<>>
          /\ stats[ImagesKey(split_log[k].split)] > 0

\* C18: in every state of the loop and when the run is over,
\* total_annotations is the sum of the three split annotation counts; so it
\* is in the statistics extract returns.
C18_TotalAnnotations ==
    /\ stats.total_annotations = stats.train_annotations + stats.val_annotations
                                 + stats.test_annotations
    /\ ret.kind = "stats" =>
          ret.stats.total_annotations =
              ret.stats.train_annotations + ret.stats.val_annotations
              + ret.stats.test_annotations

\* C18 witness: a run is over in which groups of two splits were counted,
\* one of them with more than one row.
C18_Witness ==
    /\ pc = "done"
    /\ \E s, t \in Splits :
          /\ s # t
          /\ stats[AnnotationsKey(s)] > 1
          /\ stats[AnnotationsKey(t)] > 0

\* C19: when the query returns no row, extract returns the single error
\* result and not the statistics: no group is passed and no image file, no
\* label file and no dataset YAML is written.
C19_NoDataIsFatal ==
    (Len(db_rows) = 0 /\ pc \notin {"start", "raised"}) =>
        /\ pc = "no_data"
        /\ ret.kind = "error"
        /\ data_by_image = <<>> /\ split_log = <<>>
        /\ image_files = {} /\ label_files = {}
        /\ dataset_yaml = <<>>

\* C19 witness: extract returned the error result for an empty query result.
C19_Witness ==
    /\ pc = "no_data" /\ db_rows = <<>>
    /\ ret.kind = "error"

HeldBack == config.held_back_images

\* the rows of the query result that are not of a held-back image
NotHeldBackRows == SelectSeq(db_rows, LAMBDA r : r.ImageId \notin HeldBack)

\* C20: once the loop has started, no row of a held-back image is in the
\* input or the output of the PSEZ filter, no group is formed for such an
\* image, total_images counts no such image, and no pass, image file or
\* label file is of such an image.
C20_HeldBackExcluded ==
    pc \in {"loop", "done"} =>
        /\ data = process_psez_annotations(NotHeldBackRows, config.psez_crops)
        /\ \A k \in 1..Len(data) : data[k].ImageId \notin HeldBack
        /\ \A k \in 1..Len(data_by_image) :
              \A j \in 1..Len(data_by_image[k]) :
                  data_by_image[k][j].ImageId \notin HeldBack
        /\ stats.total_images = Len(data_by_image)
        /\ stats.total_images <= Cardinality(ImageIdsOf(db_rows) \ HeldBack)
        /\ \A k \in 1..Len(split_log) : split_log[k].image_id \notin HeldBack
        /\ \A f \in image_files : f[2] \notin HeldBack
        /\ \A f \in label_files : f.image_id \notin HeldBack

\* C20 witness: the query returned rows of a held-back image and of two
\* other images; the run is over, it counted two images and wrote files.
C20_Witness ==
    /\ pc = "done"
    /\ HeldBack \cap ImageIdsOf(db_rows) # {}
    /\ stats.total_images = 2
    /\ label_files # {} /\ image_files # {}

-----------------------------------------------------------------------------
(* More claims about the PSEZ filter (SpecFilter).                         *)

\* how many times a row is in the filter's output
TimesInData(row) == Cardinality({k \in 1..Len(data) : data[k] = row})

\* C21: the filter only includes or excludes rows: every non-PSEZ row of
\* the input is in the output exactly once, unmodified; every row of the
\* output is a row of the input; no row is in the output twice.
C21_OnlyIncludesOrExcludes ==
    pc = "filtered" =>
        /\ \A i \in 1..Len(db_rows) :
              /\ db_rows[i].EPPOCode # PSEZ => TimesInData(db_rows[i]) = 1
              /\ TimesInData(db_rows[i]) <= 1
        /\ \A k \in 1..Len(data) : \E i \in 1..Len(db_rows) : data[k] = db_rows[i]

\* C21 witness: of three rows the filter kept a container and a PSEZ row
\* and dropped another PSEZ row.
C21_Witness ==
    /\ pc = "filtered"
    /\ Len(db_rows) = 3 /\ Len(data) = 2
    /\ \E j, k \in 1..2 : data[j].EPPOCode = PSEZ /\ data[k].EPPOCode = SOLTU

\* the rows of a sequence of rows
RowSet(rows) == {rows[k] : k \in 1..Len(rows)}

\* C28: the filter applied to its own output, with the same container
\* codes, returns the same rows (and in the same order).
C28_FilterIdempotent ==
    /\ pc = "filtered" => data = process_psez_annotations(db_rows, config.psez_crops)
    /\ pc = "filtered_again" =>
          /\ RowSet(data) =
                RowSet(process_psez_annotations(db_rows, config.psez_crops))
          /\ data = process_psez_annotations(db_rows, config.psez_crops)

\* C28 witness: the filter was applied twice to rows of which it kept a
\* PSEZ row and dropped another.
C28_Witness ==
    /\ pc = "filtered_again"
    /\ Len(data) < Len(db_rows)
    /\ \E k \in 1..Len(data) : data[k].EPPOCode = PSEZ

\* every row of the image in the query result is a PSEZ row
OnlyPsezRows(image_id) ==
    \A i \in 1..Len(db_rows) :
        db_rows[i].ImageId = image_id => db_rows[i].EPPOCode = PSEZ

\* C29: a PSEZ row is kept only on account of a non-PSEZ row of its image,
\* also when PSEZ is listed among the container codes: an image whose rows
\* are all PSEZ rows keeps none of them.
C29_PsezNeverContainer ==
    pc = "filtered" =>
        /\ \A k \in 1..Len(data) :
              data[k].EPPOCode = PSEZ =>
                  \E j \in 1..Len(db_rows) :
                      /\ db_rows[j].EPPOCode # PSEZ
                      /\ db_rows[j].ImageId = data[k].ImageId
                      /\ center_enclosed(Box(data[k]), Box(db_rows[j]))
        /\ \A image_id \in FilterImageIds :
              OnlyPsezRows(image_id) =>
                  \A k \in 1..Len(data) : data[k].ImageId # image_id

\* C29 witness: PSEZ is among the container codes; the rows of image 42 were
\* two PSEZ rows, one enclosing the centre of the other, and none was kept.
C29_Witness ==
    /\ pc = "filtered"
    /\ InList(PSEZ, config.psez_crops)
    /\ OnlyPsezRows(42)
    /\ \E i, j \in 1..Len(db_rows) :
          /\ i # j
          /\ db_rows[i].ImageId = 42 /\ db_rows[j].ImageId = 42
          /\ center_enclosed(Box(db_rows[i]), Box(db_rows[j]))
    /\ \A k \in 1..Len(data) : data[k].ImageId # 42

-----------------------------------------------------------------------------
(* More claims about the extraction loop (Spec).                           *)

\* the splits under whose directories an image or a label file of the
\* image exists, and the splits that counted a pass of the image
ImageSplitsOf(image_id) == {s \in Splits : HasImageFile(s, image_id)}
LabelSplitsOf(image_id) == {s \in Splits : HasLabelFile(s, image_id)}
CountSplitsOf(image_id) ==
    {s \in Splits : \E k \in Counted(s) : split_log[k].image_id = image_id}

\* C22: in a run the split of a group is decided once, in its pass, and
\* that split is the directory of its image file, the directory of its
\* label file and the split whose counters count it and all its rows: no
\* image is placed or counted in two splits.
C22_OneSplitPerGroup ==
    pc \in {"loop", "done"} =>
        /\ Len(split_log) = pos - 1
        /\ \A j, k \in 1..Len(split_log) :
              j # k => split_log[j].image_id # split_log[k].image_id
        /\ \A k \in 1..Len(split_log) :
              LET id == split_log[k].image_id IN
              /\ id = data_by_image[k][1].ImageId
              /\ ImageSplitsOf(id) \subseteq {split_log[k].split}
              /\ LabelSplitsOf(id) \subseteq {split_log[k].split}
              /\ CountSplitsOf(id) \subseteq {split_log[k].split}
              /\ LabelSplitsOf(id) = CountSplitsOf(id)
              /\ LabelSplitsOf(id) \subseteq ImageSplitsOf(id)
        /\ \A f \in image_files :
              \E k \in 1..Len(split_log) : split_log[k].image_id = f[2]
        /\ \A split \in Splits :
              /\ stats[ImagesKey(split)] = Cardinality(Counted(split))
              /\ stats[AnnotationsKey(split)] = RowsCounted(split, Len(split_log))

\* C22 witness: a run is over in which two groups were written and counted
\* in different splits.
C22_Witness ==
    /\ pc = "done"
    /\ \E j, k \in Passes("ok") :
          /\ split_log[j].split # split_log[k].split
          /\ LabelSplitsOf(split_log[j].image_id) = {split_log[j].split}
          /\ ImageSplitsOf(split_log[k].image_id) = {split_log[k].split}

\* the k-th pass reached the file placement: the split was decided and the
\* source image exists
ReachedPlacement(k) == split_log[k].outcome \in {"image_error", "label_error", "ok"}

\* C23: the placement mode follows the configuration: every group whose
\* source image exists and whose file operations did not fail has its image
\* in its split's directory, placed by copy when copy_images is set and by
\* symlink otherwise.
C23_CopyOrSymlinkByConfig ==
    \A k \in 1..Len(split_log) :
        (ReachedPlacement(k) /\ ~FileOperationFailed(k)) =>
            \E f \in image_files :
                /\ f[1] = split_log[k].split
                /\ f[2] = split_log[k].image_id
                /\ f[3] = (IF config.copy_images THEN "copy" ELSE "symlink")

\* the five per-image counters together
ImageCounters(st) ==
    st.train_images + st.val_images + st.test_images + st.skipped_images
    + st.errors

\* C24: every pass of the loop raises exactly one of train_images,
\* val_images, test_images, skipped_images and errors, by one: after k
\* passes the five counters sum to k, errors is the number of failed passes,
\* and after the loop they sum to total_images, in the statistics returned
\* too.
C24_OneCounterPerGroup ==
    /\ pc \in {"loop", "done"} =>
          /\ ImageCounters(stats) = Len(split_log)
          /\ stats.errors = Cardinality(Failed)
          /\ stats.skipped_images = Cardinality(Passes("skipped"))
          /\ stats.train_images + stats.val_images + stats.test_images
                = Cardinality(Passes("ok"))
          /\ stats.total_images = Len(data_by_image)
    /\ pc = "done" =>
          /\ ImageCounters(stats) = stats.total_images
          /\ ImageCounters(ret.stats) = ret.stats.total_images

\* C24 witness: a run of three groups is over: one was counted in a split,
\* one was skipped and one failed.
C24_Witness ==
    /\ pc = "done" /\ stats.total_images = 3
    /\ stats.errors = 1 /\ stats.skipped_images = 1
    /\ Cardinality(Passes("ok")) = 1

\* the weights normalise to a distribution, so the draw does not raise
WeightsNormalise ==
    LET p == config.split_probabilities IN
    /\ p.train >= 0 /\ p.val >= 0 /\ p.test >= 0
    /\ p.train + p.val + p.test > 0

RECURSIVE RngAfter(_, _)
\* the generator n steps after state r
RngAfter(r, n) == IF n = 0 THEN r ELSE RngNext(RngAfter(r, n - 1))

\* the passes among the first k whose group is in no fixed list and is not
\* grown
FreePasses(k) ==
    {j \in 1..k : ~LoopGroupFixed(j) /\ ~data_by_image[j][1].GrownWeed}

\* C25: with weights that normalise, the generator advances once for each
\* group that is in no fixed list and not grown, and never for another
\* group, whatever the outcome of the pass (skipped, failed or written): the
\* generator is as many steps from its seeded state as there were such
\* groups, and the split of such a group is the draw at its own step, which
\* no outcome of any pass enters.
C25_OneDrawPerFreeGroup ==
    (pc \in {"loop", "done"} /\ WeightsNormalise) =>
        /\ \A k \in 1..Len(split_log) : split_log[k].drew <=> k \in FreePasses(k)
        /\ rng = RngAfter(RandomState(config.random_seed),
                          Cardinality(FreePasses(Len(split_log))))
        /\ \A k \in 1..Len(split_log) :
              k \in FreePasses(k) =>
                  split_log[k].split =
                      SplitNames[Choice(config.split_probabilities,
                                        RngAfter(RandomState(config.random_seed),
                                                 Cardinality(FreePasses(k)))) + 1]

\* C25 witness: a run of three groups is over: the first is in a fixed
\* list and did not draw, the second drew and was skipped or failed, the
\* third drew and was written; the generator is two steps from its seed.
C25_Witness ==
    /\ pc = "done" /\ Len(split_log) = 3
    /\ ~split_log[1].drew
    /\ split_log[2].drew
    /\ split_log[2].outcome \in {"skipped", "image_error", "label_error"}
    /\ split_log[3].drew /\ split_log[3].outcome = "ok"
    /\ rng = RngAfter(RandomState(config.random_seed), 2)

-----------------------------------------------------------------------------
(* More claims about class resolution (SpecResolve).                       *)

\* C26 as claimed: a class code that is a vocabulary entry resolves to
\* itself, whatever the discriminator and the other entries.
C26_MemberResolvesToItself ==
    (pc = "resolved" /\ InList(InputCode, config.eppo_codes)) =>
        ret.eppo = InputCode

\* no other vocabulary entry is a prefix of the class code
NoOtherPrefixEntry ==
    \A i \in PrefixEntries : config.eppo_codes[i] = InputCode

\* C26 amended: a class code that is a vocabulary entry, and of which no
\* other vocabulary entry is a prefix, resolves to itself, whatever the
\* discriminator.
C26_MemberWithoutPrefixEntry ==
    (pc = "resolved" /\ InList(InputCode, config.eppo_codes) /\ NoOtherPrefixEntry) =>
        ret.eppo = InputCode

\* C26 witness: SOL resolved to itself, with a discriminator of a catch-all,
\* under a vocabulary that also holds SOLTU, of which SOL is a prefix.
C26_Witness ==
    /\ pc = "resolved"
    /\ InputCode = SOL /\ InputAux = -100
    /\ InList(SOL, config.eppo_codes) /\ InList(SOLTU, config.eppo_codes)
    /\ ret.eppo = SOL

-----------------------------------------------------------------------------
(* Claims about the annotation counters (Spec).                            *)

\* the rows of the image that are left after the held-back filter and the
\* PSEZ filter
FilteredRowsOf(image_id) ==
    Cardinality({i \in 1..Len(data) : data[i].ImageId = image_id})

RECURSIVE FilteredRowsCounted(_, _)
\* the filtered rows of the images counted in one of the splits among the
\* first k passes
FilteredRowsCounted(splits, k) ==
    IF k = 0 THEN 0
    ELSE FilteredRowsCounted(splits, k - 1)
         + (IF split_log[k].outcome = "ok" /\ split_log[k].split \in splits
               THEN FilteredRowsOf(split_log[k].image_id) ELSE 0)

\* the lines of the label file of the image
LinesWritten(image_id) ==
    LET f == CHOOSE f \in label_files : f.image_id = image_id IN Len(f.lines)

\* C27: each split's annotation counter is the number of filtered rows of
\* the images counted in the split, and total_annotations that of all
\* counted images, however many of the rows the encoder dropped: never less
\* than the number of label lines written.
C27_CountsRowsNotLines ==
    pc \in {"loop", "done"} =>
        /\ \A split \in Splits :
              stats[AnnotationsKey(split)] =
                  FilteredRowsCounted({split}, Len(split_log))
        /\ stats.total_annotations = FilteredRowsCounted(Splits, Len(split_log))
        /\ \A k \in Passes("ok") :
              LinesWritten(split_log[k].image_id)
                  <= FilteredRowsOf(split_log[k].image_id)

\* C27 witness: a run is over in which the one counted image has two rows
\* and a label file of one line; total_annotations is 2.
C27_Witness ==
    /\ pc = "done"
    /\ \E k \in Passes("ok") :
          /\ Passes("ok") = {k}
          /\ FilteredRowsOf(split_log[k].image_id) = 2
          /\ LinesWritten(split_log[k].image_id) = 1
    /\ stats.total_annotations = 2

-----------------------------------------------------------------------------
(* More claims about split assignment (SpecSplit).                         *)

\* the weight configured for a split
WeightOf(split) ==
    IF split = "train" THEN config.split_probabilities.train
    ELSE IF split = "val" THEN config.split_probabilities.val
    ELSE config.split_probabilities.test

\* C30: with non-negative weights of which one is positive, the draw for a
\* group that is in no fixed list and is not grown returns train, val or
\* test, and never a split whose weight is zero, whatever the state of the
\* generator.
C30_DrawAvoidsZeroWeight ==
    (pc = "split" /\ WeightsNormalise /\ ~InUploadList /\ ~InImageList /\ ~GroupGrown) =>
        /\ ret.kind = "ok" /\ ret.drew
        /\ ret.split \in Splits
        /\ WeightOf(ret.split) > 0

\* C30 witness: with weights 0, 1, 1 and the uniform number 0 the draw
\* returned val.
C30_Witness ==
    /\ pc = "split" /\ ret.drew
    /\ config.split_probabilities = [train |-> 0, val |-> 1, test |-> 1]
    /\ ret.rng = 0
    /\ ret.split = "val"

====
